---- MODULE Spec2Model ----
(***************************************************************************)
(* A model of parser-mini (src/parser.js): the Parser combinator library.  *)
(*                                                                         *)
(* A parser is a JavaScript closure; here it is a syntax tree (a record    *)
(* whose op field names the constructor that built the closure) and Run    *)
(* is the closure's body.  JavaScript values are primitives or references  *)
(* to heap objects, so that aliasing and Object.assign's in-place update   *)
(* are visible.  A call either returns a state {parsed, rest}, returns     *)
(* undefined, or throws.                                                   *)
(***************************************************************************)
EXTENDS Integers, Sequences, FiniteSets, TLC

VARIABLES
    pc,       \* "ready" before the call, "done" after it
    parser,   \* the parser the caller built
    input,    \* the state { parsed, rest } the parser is applied to
    mem,      \* the heap and the console
    before,   \* the heap and the console when the call started
    outcome,  \* what the call returned
    calls,    \* how many times the parser has been applied
    loop      \* the local variables of a loop that is running

vars == <<pc, parser, input, mem, before, outcome, calls, loop>>

(***************************************************************************)
(* Bounds of the model.                                                    *)
(***************************************************************************)
\* longest input text over the two-letter alphabet
MaxLen == 5
\* longest input text handed to brackets
MaxBracketLen == 6
\* longest input text handed to quoted
MaxQuotedLen == 6
\* largest min and max given to many
MaxCount == 3
\* how many times one parser is applied
MaxCalls == 3
\* longest input text given to a parser that is applied again
MaxReuseLen == 2
\* longest input text of a loop that is followed turn by turn
MaxStepLen == 4
\* how many turns of one loop are followed
MaxTurns == 6

(***************************************************************************)
(* JavaScript values.                                                      *)
(***************************************************************************)
Undef == [t |-> "undef"]
Str(s) == [t |-> "str", v |-> s]
Bool(b) == [t |-> "bool", v |-> b]
Num(n) == [t |-> "num", v |-> n]
Ref(a) == [t |-> "ref", v |-> a]

IsStr(v) == v.t = "str"
IsRef(v) == v.t = "ref"

\* ToBoolean: what `v && ...`, `v ? a : b` and `v || ...` test
Truthy(v) ==
    CASE v.t = "undef" -> FALSE
      [] v.t = "str" -> Len(v.v) > 0
      [] v.t = "bool" -> v.v
      [] v.t = "num" -> v.v # 0
      [] OTHER -> TRUE

\* String.prototype.startsWith on character sequences
StartsWith(s, template) ==
    /\ Len(template) <= Len(s)
    /\ SubSeq(s, 1, Len(template)) = template

\* String.prototype.slice(from) with a 0-based index from <= length
Slice(s, from) == SubSeq(s, from + 1, Len(s))

(***************************************************************************)
(* The heap: objects are mappings {key: value}, arrays and the wrapper     *)
(* objects Object.assign makes of a primitive target.  mem.log collects    *)
(* the messages console.assert prints.                                     *)
(***************************************************************************)
EmptyProps == [k \in {} |-> Undef]

MapObj(props) == [kind |-> "map", props |-> props, elems |-> <<>>, prim |-> Undef]
ArrObj(elems) == [kind |-> "arr", props |-> EmptyProps, elems |-> elems, prim |-> Undef]
WrapObj(prim) == [kind |-> "wrap", props |-> EmptyProps, elems |-> <<>>, prim |-> prim]

Alloc(mem0, obj) ==
    [m |-> [mem0 EXCEPT !.objs = Append(@, obj)], ref |-> Ref(Len(mem0.objs) + 1)]

Single(key, value) == [k \in {key} |-> value]

Merge(f, g) ==
    [k \in DOMAIN f \cup DOMAIN g |-> IF k \in DOMAIN g THEN g[k] ELSE f[k]]

\* the property names of array and string indices
IdxKeys == <<"0", "1", "2", "3", "4", "5", "6", "7", "8", "9">>

IndexProps(values) ==
    [k \in {IdxKeys[i] : i \in 1..Len(values)} |->
        values[CHOOSE i \in 1..Len(values) : IdxKeys[i] = k]]

(***************************************************************************)
(* Parse states and outcomes.  parseText's state {rest: text} has no parsed *)
(* property; reading it gives undefined.                                   *)
(***************************************************************************)
State(parsed, rest) == [parsed |-> parsed, rest |-> rest]

Parsed(st) == IF "parsed" \in DOMAIN st THEN st.parsed ELSE Undef

Ok(st) == [kind |-> "ok", st |-> st]
Failure == [kind |-> "fail"]
\* an exception thrown by the JavaScript engine (a TypeError)
Fault == [kind |-> "fault"]
\* a JavaScript behaviour outside what this model describes
Unmodelled == [kind |-> "unmodelled"]

IsOk(o) == o.kind = "ok"
Aborts(o) == o.kind \in {"fault", "unmodelled"}

R(out, m) == [out |-> out, mem |-> m]

(***************************************************************************)
(* The callbacks a caller hands to the library: predicates (Predicate) and *)
(* mappers (Mapper), each a small record naming a JavaScript function.     *)
(*   always          text => true                                          *)
(*   startsWith s    text => text.startsWith(s)                            *)
(*   notStartsWith s text => !text.startsWith(s)                           *)
(*   is c            c => c == 'c'          isNot c    c => c != 'c'       *)
(*   join            cs => cs.join('')      length     cs => cs.length     *)
(*   const v         () => v                text       s => ({text: s})    *)
(***************************************************************************)
Always == [f |-> "always"]
StartsWithP(s) == [f |-> "startsWith", s |-> s]
NotStartsWithP(s) == [f |-> "notStartsWith", s |-> s]
Is(c) == [f |-> "is", c |-> c]
IsNot(c) == [f |-> "isNot", c |-> c]
Join == [f |-> "join"]
Length == [f |-> "length"]
Const(v) == [f |-> "const", v |-> v]
Text == [f |-> "text"]

\* the call throws: startsWith is a method of strings only
PredThrows(cond, v) == cond.f \in {"startsWith", "notStartsWith"} /\ ~IsStr(v)

PredHolds(cond, v) ==
    CASE cond.f = "always" -> TRUE
      [] cond.f = "startsWith" -> StartsWith(v.v, cond.s)
      [] cond.f = "notStartsWith" -> ~StartsWith(v.v, cond.s)
      [] cond.f = "is" -> v = Str(<<cond.c>>)
      [] cond.f = "isNot" -> v # Str(<<cond.c>>)

RECURSIVE Concat(_)
Concat(strs) ==
    IF strs = <<>> THEN <<>>
    ELSE (IF Head(strs).t = "str" THEN Head(strs).v ELSE <<>>) \o Concat(Tail(strs))

IsArr(v, m) == IsRef(v) /\ m.objs[v.v].kind = "arr"

\* a mapper applied to a value: [kind, val, mem]
Mapped(kind, val, m) == [kind |-> kind, val |-> val, mem |-> m]

ApplyMapper(f, v, m) ==
    CASE f.f = "const" -> Mapped("ok", f.v, m)
      [] f.f = "text" ->
            LET a == Alloc(m, MapObj(Single("text", v)))
            IN  Mapped("ok", a.ref, a.m)
      [] f.f = "join" ->
            IF ~IsArr(v, m) THEN Mapped("fault", Undef, m)
            ELSE LET elems == m.objs[v.v].elems
                 IN  IF \A i \in 1..Len(elems) : elems[i].t \in {"str", "undef"}
                     THEN Mapped("ok", Str(Concat(elems)), m)
                     ELSE Mapped("unmodelled", Undef, m)
      [] f.f = "length" ->
            CASE IsArr(v, m) -> Mapped("ok", Num(Len(m.objs[v.v].elems)), m)
              [] IsStr(v) -> Mapped("ok", Num(Len(v.v)), m)
              [] v.t = "undef" -> Mapped("fault", Undef, m)
              [] OTHER -> Mapped("ok", Undef, m)

(***************************************************************************)
(* notEmptyObject, console.assert and Object.assign, as bind and           *)
(* bindInversed use them.                                                  *)
(***************************************************************************)
\* o && typeof o == 'object'
notEmptyObject(o) == IsRef(o)

BothObjects == "Both left and right parser should return object"
BracesDiffer == "The left and right braces must differ"

\* console.assert(ok, message): prints the message and goes on
assert(ok, message, m) == IF ok THEN m ELSE [m EXCEPT !.log = @ \cup {message}]

\* the own enumerable properties Object.assign copies from a source
OwnProps(source, m) ==
    CASE source.t = "str" -> IndexProps([i \in 1..Len(source.v) |-> Str(<<source.v[i]>>)])
      [] source.t = "ref" ->
            LET o == m.objs[source.v]
            IN  CASE o.kind = "map" -> o.props
                  [] o.kind = "arr" -> Merge(IndexProps(o.elems), o.props)
                  [] OTHER ->
                        IF o.prim.t = "str"
                        THEN Merge(IndexProps([i \in 1..Len(o.prim.v) |->
                                                  Str(<<o.prim.v[i]>>)]), o.props)
                        ELSE o.props
      [] OTHER -> EmptyProps

\* the index properties of a string wrapper are read-only
ReadOnlyKeys(o) ==
    IF o.kind = "wrap" /\ o.prim.t = "str"
    THEN {IdxKeys[i] : i \in 1..Len(o.prim.v)}
    ELSE {}

\* Object.assign(target, source): [kind, val, mem]; the target is updated in
\* place and returned
ObjectAssign(target, source, m) ==
    IF target.t = "undef" THEN Mapped("fault", Undef, m)
    ELSE IF (source.t = "str" /\ Len(source.v) > Len(IdxKeys))
         THEN Mapped("unmodelled", Undef, m)
    ELSE
      LET a == IF IsRef(target) THEN [m |-> m, ref |-> target]
               ELSE Alloc(m, WrapObj(target))
          o == a.m.objs[a.ref.v]
          props == OwnProps(source, a.m)
      IN  CASE DOMAIN props \cap ReadOnlyKeys(o) # {} -> Mapped("fault", Undef, a.m)
            [] o.kind = "arr" /\ DOMAIN props \cap {IdxKeys[i] : i \in 1..Len(IdxKeys)} # {} ->
                  Mapped("unmodelled", Undef, a.m)
            [] OTHER ->
                  Mapped("ok", a.ref,
                         [a.m EXCEPT !.objs[a.ref.v].props = Merge(@, props)])

(***************************************************************************)
(* Parsers.  Each constructor of the source builds a closure `internal`;   *)
(* here it builds the record that names the closure and what it captured.  *)
(***************************************************************************)
\* an absent optional argument: key, condition
NoKey == ""
NoCond == [f |-> "none"]

result(value) == [op |-> "result", value |-> value]
zero == [op |-> "zero"]
item == [op |-> "item"]
char(c) == [op |-> "char", c |-> c]
sat(condition) == [op |-> "sat", condition |-> condition]
string(template) == [op |-> "string", template |-> template]
peek(condition) == [op |-> "peek", condition |-> condition]
all == [op |-> "all"]
end == [op |-> "end"]
brackets(left, right) == [op |-> "brackets", left |-> left, right |-> right]
repeat(elementParser, fromText, condition) ==
    [op |-> "repeat", elementParser |-> elementParser, fromText |-> fromText,
     condition |-> condition]

save(this, key) == [op |-> "save", this |-> this, key |-> key]
bind(this, next) == [op |-> "bind", this |-> this, next |-> next]
bindInversed(this, next, key) ==
    [op |-> "bindInversed", this |-> this, next |-> next, key |-> key]
seq(this, next) == [op |-> "seq", this |-> this, next |-> next]
seqInversed(this, next, key) ==
    [op |-> "seqInversed", this |-> this, next |-> next, key |-> key]
pass(this, next) == [op |-> "pass", this |-> this, next |-> next]
or(this, other) == [op |-> "or", this |-> this, other |-> other]
many(this, min, max, condition) ==
    [op |-> "many", this |-> this, min |-> min, max |-> max, condition |-> condition]
fmap(this, mapper) == [op |-> "fmap", this |-> this, mapper |-> mapper]
default(this, defaultValue) ==
    [op |-> "default", this |-> this, defaultValue |-> defaultValue]

\* Parser.quoted composes its parser from the others
quotedKeepsClosing(quote) ==
    LET exactQuote == string(quote)
        untilQuote == fmap(many(item, 0, 0, NotStartsWithP(quote)), Join)
    IN  seq(seq(exactQuote, untilQuote), exactQuote)

quoted(quote) ==
    LET exactQuote == string(quote)
        untilQuote == fmap(many(item, 0, 0, NotStartsWithP(quote)), Join)
    IN  pass(seq(exactQuote, untilQuote), exactQuote)

(***************************************************************************)
(* The primitives' bodies.  rest is a string in every state parseText      *)
(* starts; the inversed combinators may hand over any value.               *)
(***************************************************************************)
itemInternal(st, m) ==
    LET rest == st.rest
    IN  CASE ~Truthy(rest) -> R(Failure, m)
          [] IsStr(rest) -> R(Ok(State(Str(<<rest.v[1]>>), Str(Slice(rest.v, 1)))), m)
          [] OTHER -> R(Unmodelled, m)

charInternal(c, st, m) ==
    LET rest == st.rest
    IN  CASE ~Truthy(rest) -> R(Failure, m)
          [] IsStr(rest) ->
                IF rest.v[1] = c
                THEN R(Ok(State(Str(<<c>>), Str(Slice(rest.v, 1)))), m)
                ELSE R(Failure, m)
          [] OTHER -> R(Unmodelled, m)

satInternal(condition, st, m) ==
    LET rest == st.rest
    IN  CASE ~Truthy(rest) -> R(Failure, m)
          [] IsStr(rest) ->
                IF PredHolds(condition, Str(<<rest.v[1]>>))
                THEN R(Ok(State(Str(<<rest.v[1]>>), Str(Slice(rest.v, 1)))), m)
                ELSE R(Failure, m)
          [] OTHER -> R(Unmodelled, m)

stringInternal(template, st, m) ==
    LET rest == st.rest
    IN  CASE ~Truthy(rest) -> R(Failure, m)
          [] IsStr(rest) ->
                IF StartsWith(rest.v, template)
                THEN R(Ok(State(Str(template), Str(Slice(rest.v, Len(template))))), m)
                ELSE R(Failure, m)
          \* startsWith is no method of a non-string
          [] OTHER -> R(Fault, m)

\* peek returns the very state it was given
peekInternal(condition, st, m) ==
    CASE PredThrows(condition, st.rest) -> R(Fault, m)
      [] PredHolds(condition, st.rest) -> R(Ok(st), m)
      [] OTHER -> R(Failure, m)

allInternal(st, m) == R(Ok(State(st.rest, Str(<<>>))), m)

endInternal(st, m) ==
    IF Truthy(st.rest) THEN R(Failure, m)
    ELSE R(Ok(State(Bool(TRUE), Str(<<>>))), m)

resultInternal(value, st, m) == R(Ok(State(value, st.rest)), m)

(***************************************************************************)
(* Parser.brackets: the scan with a nesting counter.                       *)
(***************************************************************************)
\* one turn of the while loop's body: the balance after text[index]
BalanceFlat(char0, left, right, balance) ==
    IF char0 = right THEN balance - 1 ELSE balance

Balance(char0, left, right, balance) ==
    IF char0 = left THEN balance + 1
    ELSE IF char0 = right THEN balance - 1
    ELSE balance

RECURSIVE BracketsScan(_, _, _, _, _)
BracketsScan(text, left, right, index, balance) ==
    IF balance # 0 /\ index < Len(text)
    THEN BracketsScan(text, left, right, index + 1,
                      Balance(text[index + 1], left, right, balance))
    ELSE [index |-> index, balance |-> balance]

\* what the scan returns for its final index and balance
BracketsResult(text, index, balance) ==
    IF balance # 0 THEN Failure
    ELSE Ok(State(Str(SubSeq(text, 2, index - 1)), Str(Slice(text, index))))

bracketsInternal(left, right, st, m) ==
    LET text == st.rest
    IN  CASE ~Truthy(text) -> R(Failure, m)
          [] IsStr(text) ->
                IF text.v[1] = left
                THEN LET scan == BracketsScan(text.v, left, right, 1, 1)
                     IN  R(BracketsResult(text.v, scan.index, scan.balance), m)
                ELSE R(Failure, m)
          [] OTHER -> R(Unmodelled, m)

(***************************************************************************)
(* The combinators' bodies.  Run(p, st, m) is p._parse(st) on heap m: the  *)
(* outcome and the heap it leaves.                                         *)
(***************************************************************************)
RECURSIVE Run(_, _, _)

saveInternal(this, key, st, m) ==
    LET point == Run(this, st, m)
    IN  IF ~IsOk(point.out) THEN point
        ELSE LET a == Alloc(point.mem, MapObj(Single(key, Parsed(point.out.st))))
             IN  R(Ok(State(a.ref, point.out.st.rest)), a.m)

\* what bind and bindInversed return once both sides succeeded: the left
\* value with the right value's properties assigned to it, and `rest`
Fused(left, right, rest, m) ==
    LET checked == assert(notEmptyObject(Parsed(left)) /\ notEmptyObject(Parsed(right)),
                          BothObjects, m)
        assigned == ObjectAssign(Parsed(left), Parsed(right), checked)
    IN  IF assigned.kind = "ok"
        THEN R(Ok(State(assigned.val, rest)), assigned.mem)
        ELSE R([kind |-> assigned.kind], assigned.mem)

bindInternal(this, next, st, m) ==
    LET left == Run(this, st, m)
    IN  IF ~IsOk(left.out) THEN left
        ELSE LET right == Run(next, left.out.st, left.mem)
             IN  IF ~IsOk(right.out) THEN right
                 ELSE Fused(left.out.st, right.out.st, right.out.st.rest, right.mem)

\* left.parsed[key]: [kind, val]
GetProp(v, key, m) ==
    CASE v.t = "undef" -> [kind |-> "fault", val |-> Undef]
      [] v.t = "ref" ->
            LET o == m.objs[v.v]
            IN  IF key \in DOMAIN o.props THEN [kind |-> "ok", val |-> o.props[key]]
                ELSE IF o.kind = "map" THEN [kind |-> "ok", val |-> Undef]
                ELSE [kind |-> "unmodelled", val |-> Undef]
      [] OTHER -> [kind |-> "ok", val |-> Undef]

\* key ? left.parsed[key] : left.parsed
ExtractedWhole(left, key, m) == [kind |-> "ok", val |-> Parsed(left)]

Extracted(left, key, m) ==
    IF key # NoKey THEN GetProp(Parsed(left), key, m)
    ELSE [kind |-> "ok", val |-> Parsed(left)]

\* the inversed combinators report `rest: left.rest`
InversedRestOfRight(left, right) == right.rest
InversedRest(left, right) == left.rest

bindInversedInternal(this, next, key, st, m) ==
    LET left == Run(this, st, m)
    IN  IF ~IsOk(left.out) THEN left
        ELSE LET rest == Extracted(left.out.st, key, left.mem)
             IN  IF rest.kind # "ok" THEN R([kind |-> rest.kind], left.mem)
                 ELSE LET right == Run(next, [rest |-> rest.val], left.mem)
                      IN  IF ~IsOk(right.out) THEN right
                          ELSE Fused(left.out.st, right.out.st,
                                     InversedRest(left.out.st, right.out.st),
                                     right.mem)

seqInternal(this, next, st, m) ==
    LET left == Run(this, st, m)
    IN  IF ~IsOk(left.out) THEN left
        ELSE Run(next, left.out.st, left.mem)

seqInversedInternal(this, next, key, st, m) ==
    LET left == Run(this, st, m)
    IN  IF ~IsOk(left.out) THEN left
        ELSE LET rest == Extracted(left.out.st, key, left.mem)
             IN  IF rest.kind # "ok" THEN R([kind |-> rest.kind], left.mem)
                 ELSE LET right == Run(next, [rest |-> rest.val], left.mem)
                      IN  IF ~IsOk(right.out) THEN right
                          ELSE R(Ok(State(Parsed(right.out.st),
                                          InversedRest(left.out.st, right.out.st))),
                                 right.mem)

\* right && { parsed: left.parsed, rest: right.rest }
Passed(left, right) == State(Parsed(left), right.rest)

passInternal(this, next, st, m) ==
    LET left == Run(this, st, m)
    IN  IF ~IsOk(left.out) THEN left
        ELSE LET right == Run(next, left.out.st, left.mem)
             IN  IF ~IsOk(right.out) THEN right
                 ELSE R(Ok(Passed(left.out.st, right.out.st)), right.mem)

\* this._parse(input) || other._parse(input)
orInternal(this, other, st, m) ==
    LET first == Run(this, st, m)
    IN  IF IsOk(first.out) \/ Aborts(first.out) THEN first
        ELSE Run(other, st, first.mem)

fmapInternal(this, mapper, st, m) ==
    LET res == Run(this, st, m)
    IN  IF ~IsOk(res.out) THEN res
        ELSE LET mapped == ApplyMapper(mapper, Parsed(res.out.st), res.mem)
             IN  IF mapped.kind = "ok"
                 THEN R(Ok(State(mapped.val, res.out.st.rest)), mapped.mem)
                 ELSE R([kind |-> mapped.kind], mapped.mem)

\* this._parse(input) || { parsed: defaultValue, rest: input.rest }
defaultInternal(this, defaultValue, st, m) ==
    LET res == Run(this, st, m)
    IN  IF IsOk(res.out) \/ Aborts(res.out) THEN res
        ELSE R(Ok(State(defaultValue, st.rest)), res.mem)

(***************************************************************************)
(* many: the loop over `this`, bounded by min, max and condition.          *)
(***************************************************************************)
overflowAtMax(max, iterations) == max # 0 /\ iterations >= max
overflow(max, iterations) == max # 0 /\ iterations > max

underflowOffByOne(min, iterations) == min # 0 /\ iterations + 1 < min
underflow(min, iterations) == min # 0 /\ iterations < min

\* goOn() throws when the condition does
GoOnThrows(condition, text) ==
    condition # NoCond /\ Truthy(text) /\ PredThrows(condition, text)

goOnWhateverText(condition, max, text, iterations) ==
    /\ condition # NoCond => PredHolds(condition, text)
    /\ ~overflow(max, iterations)

goOn(condition, max, text, iterations) ==
    /\ Truthy(text)
    /\ condition # NoCond => PredHolds(condition, text)
    /\ ~overflow(max, iterations)

\* what many returns after its loop
ManyResult(min, max, iterations, elements, text, m) ==
    IF overflow(max, iterations) \/ underflow(min, iterations)
    THEN R(Failure, m)
    ELSE LET a == Alloc(m, ArrObj(elements))
         IN  R(Ok(State(a.ref, text)), a.m)

\* The loop ends within LoopFuel turns when every success of the repeated
\* parser consumes a character or max is given; past that the model says
\* nothing of the run.
LoopFuel(text, max) == (IF IsStr(text) THEN Len(text.v) ELSE 0) + max + 1

RECURSIVE ManyLoop(_, _, _, _, _, _, _)
ManyLoop(p, st, text, elements, iterations, m, fuel) ==
    IF GoOnThrows(p.condition, text) THEN R(Fault, m)
    ELSE IF ~goOn(p.condition, p.max, text, iterations)
    THEN ManyResult(p.min, p.max, iterations, elements, text, m)
    ELSE IF fuel = 0 THEN R(Unmodelled, m)
    ELSE LET res == Run(p.this, State(Parsed(st), text), m)
         IN  CASE Aborts(res.out) -> res
               [] ~IsOk(res.out) ->
                     ManyResult(p.min, p.max, iterations, elements, text, res.mem)
               [] OTHER ->
                     ManyLoop(p, st, res.out.st.rest,
                              Append(elements, Parsed(res.out.st)),
                              iterations + 1, res.mem, fuel - 1)

manyInternal(p, st, m) ==
    ManyLoop(p, st, st.rest, <<>>, 0, m, LoopFuel(st.rest, p.max))

(***************************************************************************)
(* Parser.repeat: elements interleaved with runs of unparsed text.         *)
(***************************************************************************)
\* makeText(): [kind, elements, mem]; chars is emptied by the caller
makeTextUnguarded(fromText, chars, elements, m) ==
    LET made == ApplyMapper(fromText, Str(chars), m)
    IN  [kind |-> made.kind, elements |-> Append(elements, made.val), mem |-> made.mem]

makeText(fromText, chars, elements, m) ==
    IF Len(chars) # 0
    THEN LET made == ApplyMapper(fromText, Str(chars), m)
         IN  [kind |-> made.kind, elements |-> Append(elements, made.val),
              mem |-> made.mem]
    ELSE [kind |-> "ok", elements |-> elements, mem |-> m]

\* elements.length ? { parsed: elements, rest: text } : undefined
RepeatResultUnchecked(elements, text, m) ==
    LET a == Alloc(m, ArrObj(elements))
    IN  R(Ok(State(a.ref, text)), a.m)

RepeatResult(elements, text, m) ==
    IF Len(elements) # 0
    THEN LET a == Alloc(m, ArrObj(elements))
         IN  R(Ok(State(a.ref, text)), a.m)
    ELSE R(Failure, m)

\* the loop's test `text && condition(text)`: "go", "stop" or "throw"
RepeatTest(condition, text) ==
    CASE ~Truthy(text) -> "stop"
      [] condition = NoCond \/ PredThrows(condition, text) -> "throw"
      [] PredHolds(condition, text) -> "go"
      [] OTHER -> "stop"

RECURSIVE RepeatLoop(_, _, _, _, _, _)
RepeatLoop(p, text, chars, elements, m, fuel) ==
    LET test == RepeatTest(p.condition, text)
    IN  CASE test = "throw" -> R(Fault, m)
          [] test = "stop" ->
                LET flushed == makeText(p.fromText, chars, elements, m)
                IN  IF flushed.kind = "ok"
                    THEN RepeatResult(flushed.elements, text, flushed.mem)
                    ELSE R([kind |-> flushed.kind], flushed.mem)
          [] ~IsStr(text) \/ fuel = 0 -> R(Unmodelled, m)
          [] OTHER ->
                LET fresh == Alloc(m, MapObj(EmptyProps))
                    res == Run(p.elementParser, State(fresh.ref, text), fresh.m)
                IN  CASE Aborts(res.out) -> res
                      [] IsOk(res.out) ->
                            LET flushed == makeText(p.fromText, chars, elements, res.mem)
                            IN  IF flushed.kind = "ok"
                                THEN RepeatLoop(p, res.out.st.rest, <<>>,
                                                Append(flushed.elements,
                                                       Parsed(res.out.st)),
                                                flushed.mem, fuel - 1)
                                ELSE R([kind |-> flushed.kind], flushed.mem)
                      [] OTHER ->
                            RepeatLoop(p, Str(Slice(text.v, 1)),
                                       Append(chars, text.v[1]), elements,
                                       res.mem, fuel)

repeatInternal(p, st, m) ==
    RepeatLoop(p, st.rest, <<>>, <<>>, m, LoopFuel(st.rest, 0))

(***************************************************************************)
(* p._parse(st)                                                            *)
(***************************************************************************)
Run(p, st, m) ==
    CASE p.op = "result" -> resultInternal(p.value, st, m)
      [] p.op = "zero" -> R(Failure, m)
      [] p.op = "item" -> itemInternal(st, m)
      [] p.op = "char" -> charInternal(p.c, st, m)
      [] p.op = "sat" -> satInternal(p.condition, st, m)
      [] p.op = "string" -> stringInternal(p.template, st, m)
      [] p.op = "peek" -> peekInternal(p.condition, st, m)
      [] p.op = "all" -> allInternal(st, m)
      [] p.op = "end" -> endInternal(st, m)
      [] p.op = "brackets" -> bracketsInternal(p.left, p.right, st, m)
      [] p.op = "repeat" -> repeatInternal(p, st, m)
      [] p.op = "save" -> saveInternal(p.this, p.key, st, m)
      [] p.op = "bind" -> bindInternal(p.this, p.next, st, m)
      [] p.op = "bindInversed" -> bindInversedInternal(p.this, p.next, p.key, st, m)
      [] p.op = "seq" -> seqInternal(p.this, p.next, st, m)
      [] p.op = "seqInversed" -> seqInversedInternal(p.this, p.next, p.key, st, m)
      [] p.op = "pass" -> passInternal(p.this, p.next, st, m)
      [] p.op = "or" -> orInternal(p.this, p.other, st, m)
      [] p.op = "many" -> manyInternal(p, st, m)
      [] p.op = "fmap" -> fmapInternal(p.this, p.mapper, st, m)
      [] p.op = "default" -> defaultInternal(p.this, p.defaultValue, st, m)

\* What console.assert printed while the parser was built: Parser.brackets
\* checks its arguments when it is called
RECURSIVE ConstructionLog(_)
ConstructionLog(p) ==
    CASE p.op = "brackets" -> assert(p.left # p.right, BracesDiffer, [log |-> {}]).log
      [] p.op \in {"save", "many", "fmap", "default"} -> ConstructionLog(p.this)
      [] p.op \in {"bind", "bindInversed", "seq", "seqInversed", "pass"} ->
            ConstructionLog(p.this) \cup ConstructionLog(p.next)
      [] p.op = "or" -> ConstructionLog(p.this) \cup ConstructionLog(p.other)
      [] p.op = "repeat" -> ConstructionLog(p.elementParser)
      [] OTHER -> {}

\* parser.parseText(text) = parser._parse({ rest: text })
parseText(p, text, m) == Run(p, [rest |-> Str(text)], m)

(***************************************************************************)
(* What a caller sees of a value: its content, references followed.        *)
(***************************************************************************)
RECURSIVE Deep(_, _)
Deep(v, m) ==
    IF ~IsRef(v) THEN v
    ELSE LET o == m.objs[v.v]
         IN  [t |-> o.kind,
              props |-> [k \in DOMAIN o.props |-> Deep(o.props[k], m)],
              elems |-> [i \in 1..Len(o.elems) |-> Deep(o.elems[i], m)],
              prim |-> o.prim]

DeepState(st, m) ==
    IF "parsed" \in DOMAIN st
    THEN [parsed |-> Deep(st.parsed, m), rest |-> Deep(st.rest, m)]
    ELSE [rest |-> Deep(st.rest, m)]

\* an outcome as the caller sees it
Seen(o, m) == IF IsOk(o) THEN Ok(DeepState(o.st, m)) ELSE o

(***************************************************************************)
(* The parsers and inputs of the model.                                    *)
(***************************************************************************)
Texts(alphabet, n) == UNION {[1..k -> alphabet] : k \in 0..n}

AB == {"a", "b"}
ABC == {"a", "b", "c"}

\* The heap a call starts with: the object a caller gave to Parser.result
\* and the mapping an earlier parser left as the state's value
InitMem ==
    [objs |-> <<MapObj(Single("c", Str(<<"c">>))), MapObj(Single("p", Str(<<"z">>)))>>,
     log |-> {}]
ConstRef == Ref(1)
Carried == Ref(2)

\* the states parseText makes of a text, and those an earlier parser leaves
Fresh(texts) == {[rest |-> Str(t)] : t \in texts}
After(texts) == {State(Carried, Str(t)) : t \in texts}

\* string-valued parsers
StrParsers ==
    {item, char("a"), sat(IsNot("b")), string(<<"a", "b">>), all,
     quoted(<<"a">>), brackets("a", "b")}

\* every primitive
Primitives ==
    StrParsers \cup
    {result(Str(<<"r">>)), result(ConstRef), zero, peek(StartsWithP(<<"a">>)), end,
     repeat(char("a"), Text, Always)}

ManyParsers ==
    {many(p, mm[1], mm[2], c) :
        p \in {char("a"), string(<<"a", "b">>), item},
        mm \in (0..MaxCount) \X (0..MaxCount),
        c \in {NoCond, Always, NotStartsWithP(<<"b">>), StartsWithP(<<"a", "a">>)}}

GeneralParsers ==
    Primitives
    \cup {save(p, "k") : p \in Primitives}
    \cup {fmap(many(p, 0, 0, NoCond), f) : p \in StrParsers, f \in {Join, Length}}
    \cup {default(p, Str(<<"d">>)) : p \in Primitives}
    \cup {seq(p, q) : p, q \in Primitives}
    \cup {pass(p, q) : p, q \in Primitives}
    \cup {or(p, q) : p, q \in Primitives}
    \cup {bind(save(p, "k"), save(q, "j")) : p, q \in StrParsers}
    \cup {bindInversed(save(p, "k"), save(q, "j"), "k") : p, q \in StrParsers}
    \cup {seqInversed(p, q, NoKey) : p, q \in StrParsers}

\* the states over the two-letter alphabet, fresh or left by a parser
Both == Fresh(Texts(AB, MaxLen)) \cup After(Texts(AB, MaxLen))

BracketsParsers == {brackets("a", "b"), brackets("b", "a")}

\* the delimiters given to quoted
Quotes == {<<"a">>, <<"a", "b">>, <<"a", "a">>, <<"b", "a">>}

QuotedParsers == {quoted(q) : q \in Quotes}

RepeatParsers ==
    {repeat(el, f, c) :
        el \in {char("a"), string(<<"a", "b">>), save(char("a"), "el"),
                fmap(many(char("a"), 1, 0, NoCond), Const(Str(<<"a", "s">>)))},
        f \in {Text, Const(Str(<<"?">>))},
        c \in {Always, NotStartsWithP(<<"c">>), NotStartsWithP(<<"b", "b">>)}}

\* alternatives applied to the state an earlier parser left
OrParsers ==
    {or(p, q) :
        p \in {char("a"), string(<<"a", "b">>), zero, seq(save(item, "q"), zero),
               pass(bind(peek(Always), save(char("a"), "q")), char("b"))},
        q \in {char("b"), item, all, peek(Always), result(Str(<<"r">>)),
               bind(peek(Always), save(item, "j"))}}

\* mapping-valued operands of the sequencing combinators
Lefts ==
    {save(char("a"), "k"), save(item, "k"), result(ConstRef),
     bind(save(item, "k"), save(item, "i"))}

Rights ==
    {save(char("b"), "j"), save(item, "k"), save(zero, "j"), save(all, "j"),
     peek(Always), bind(peek(Always), save(item, "q"))}

ForwardParsers ==
    {bind(p, q) : p \in Lefts, q \in Rights}
    \cup {seq(p, q) : p \in Lefts, q \in Rights}
    \cup {pass(p, q) : p \in Lefts, q \in Rights}

InversedLefts ==
    {save(quoted(<<"a">>), "k"), save(item, "k"), save(string(<<"a", "b">>), "k"),
     save(all, "k")}

InversedRights ==
    {save(item, "j"), save(char("b"), "j"), save(all, "k"), save(end, "j"),
     save(zero, "j")}

InversedParsers ==
    {bindInversed(p, q, k) : p \in InversedLefts, q \in InversedRights, k \in {"k", "z"}}
    \cup {seqInversed(p, q, k) : p \in InversedLefts, q \in InversedRights,
                                 k \in {"k", "z"}}
    \cup {seqInversed(p, q, NoKey) : p \in StrParsers, q \in {item, char("b"), all, end}}
    \cup {bindInversed(p, q, NoKey) :
            p \in InversedLefts, q \in {result(ConstRef), save(peek(Always), "j")}}

\* defaults over every primitive and over parsers that fail after a bind
DefaultParsers ==
    {default(p, d) :
        p \in Primitives \cup
              {pass(bind(result(ConstRef), save(item, "k")), zero),
               pass(bind(save(item, "k"), save(char("a"), "q")), char("b"))},
        d \in {Str(<<"d">>), ConstRef}}

\* the parser a caller built and the state it applies it to
Chosen ==
    \/ parser \in GeneralParsers /\ input \in Fresh(Texts(AB, MaxLen))
    \/ parser \in ManyParsers /\ input \in Both
    \/ parser \in BracketsParsers /\ input \in Fresh(Texts(ABC, MaxBracketLen))
    \/ parser \in QuotedParsers /\ input \in Fresh(Texts(AB, MaxQuotedLen))
    \/ parser \in RepeatParsers /\ input \in Fresh(Texts(ABC, MaxLen))
    \/ parser \in OrParsers /\ input \in After(Texts(AB, MaxLen))
    \/ parser \in ForwardParsers /\ input \in Both
    \/ parser \in InversedParsers /\ input \in Both
    \/ parser \in DefaultParsers /\ input \in Both

(***************************************************************************)
(* The state machine: a caller holds a parser and applies it once.         *)
(***************************************************************************)
None == [kind |-> "none"]

\* no loop is running
NoLoop == [kind |-> "none"]

\* the heap when the parser has been built and not yet applied
Pristine == [InitMem EXCEPT !.log = ConstructionLog(parser)]

Init ==
    /\ pc = "ready"
    /\ Chosen
    /\ mem = Pristine
    /\ before = mem
    /\ outcome = None
    /\ calls = 0
    /\ loop = NoLoop

\* parser.parseText(text)
ParseText ==
    /\ pc = "ready"
    /\ "parsed" \notin DOMAIN input
    /\ LET r == parseText(parser, input.rest.v, mem)
       IN  outcome' = r.out /\ mem' = r.mem
    /\ pc' = "done"
    /\ calls' = calls + 1
    /\ UNCHANGED <<parser, input, before, loop>>

\* parser._parse(input), as a combinator applies its operand to the state
\* the parser before it left
Parse ==
    /\ pc = "ready"
    /\ "parsed" \in DOMAIN input
    /\ LET r == Run(parser, input, mem)
       IN  outcome' = r.out /\ mem' = r.mem
    /\ pc' = "done"
    /\ calls' = calls + 1
    /\ UNCHANGED <<parser, input, before, loop>>

Next == ParseText \/ Parse

Spec == Init /\ [][Next]_vars

(***************************************************************************)
(* One parser applied to several texts, one after the other: the heap,     *)
(* with the objects the parser captured, lives on between the calls.       *)
(***************************************************************************)
ReuseParsers ==
    {bind(result(ConstRef), save(item, "k")),
     bind(result(ConstRef), or(save(char("a"), "k"), save(item, "j"))),
     bind(default(save(char("a"), "k"), ConstRef), save(item, "j")),
     bindInversed(result(ConstRef), save(item, "j"), "c"),
     bindInversed(save(item, "k"), result(ConstRef), "k"),
     bind(save(item, "k"), save(item, "j")),
     bind(save(item, "k"), result(ConstRef)),
     seq(result(ConstRef), item),
     default(char("a"), ConstRef),
     fmap(many(char("a"), 1, 2, NoCond), Join),
     quoted(<<"a">>),
     or(string(<<"a", "b">>), item)}

InitReuse ==
    /\ pc = "ready"
    /\ parser \in ReuseParsers
    /\ input \in Fresh(Texts(AB, MaxReuseLen))
    /\ mem = Pristine
    /\ before = mem
    /\ outcome = None
    /\ calls = 0
    /\ loop = NoLoop

\* the caller takes the same parser to the next text
Again ==
    /\ pc = "done"
    /\ calls < MaxCalls
    /\ input' \in Fresh(Texts(AB, MaxReuseLen))
    /\ before' = mem
    /\ outcome' = None
    /\ pc' = "ready"
    /\ UNCHANGED <<parser, mem, calls, loop>>

NextReuse == ParseText \/ Again

SpecReuse == InitReuse /\ [][NextReuse]_vars

\* the model describes every run it makes
Modelled == outcome.kind # "unmodelled"

(***************************************************************************)
(* The loops of many, Parser.repeat and Parser.brackets, one turn of the   *)
(* while statement at a time.  Parser.quoted loops in the many it is made  *)
(* of.  loop holds the local variables of the closure that is running.     *)
(***************************************************************************)
\* many: text, elements, iterations; p is the many parser, st its input and
\* quoted the quoted parser the loop runs for, if any
ManyFrame(p, st, of) ==
    [kind |-> "many", p |-> p, st |-> st, quoted |-> of,
     text |-> st.rest, elements |-> <<>>, iterations |-> 0]

\* repeat: text, chars, elements; turns counts the turns of the loop
RepeatFrame(p, st) ==
    [kind |-> "repeat", p |-> p, text |-> st.rest, chars |-> <<>>,
     elements |-> <<>>, turns |-> 0]

\* brackets: index, balance
BracketsFrame(p, st) ==
    [kind |-> "brackets", p |-> p, text |-> st.rest.v, index |-> 1, balance |-> 1]

\* where a call stands: in a loop, or returned
Looping(frame, m) == [pc |-> "loop", loop |-> frame, outcome |-> None, mem |-> m]
Returned(res) == [pc |-> "done", loop |-> NoLoop, outcome |-> res.out, mem |-> res.mem]

\* the parser is Parser.quoted's: exactQuote.seq(untilQuote).pass(exactQuote)
IsQuoted(p) ==
    /\ p.op = "pass" /\ p.this.op = "seq" /\ p.this.next.op = "fmap"
    /\ p.this.next.this.op = "many"

\* the call up to its loop
Entered(p, st, m) ==
    CASE p.op = "many" -> Looping(ManyFrame(p, st, NoLoop), m)
      [] p.op = "repeat" -> Looping(RepeatFrame(p, st), m)
      [] p.op = "brackets" ->
            IF Truthy(st.rest) /\ st.rest.v[1] = p.left
            THEN Looping(BracketsFrame(p, st), m)
            ELSE Returned(R(Failure, m))
      [] OTHER ->
            LET open == Run(p.this.this, st, m)
            IN  IF IsOk(open.out)
                THEN Looping(ManyFrame(p.this.next.this, open.out.st, p), open.mem)
                ELSE Returned(open)

\* quoted after its many returned: fmap(cs => cs.join('')), then
\* pass(exactQuote)
QuotedRest(p, res) ==
    IF ~IsOk(res.out) THEN res
    ELSE LET mapped == ApplyMapper(p.this.next.mapper, Parsed(res.out.st), res.mem)
             left == State(mapped.val, res.out.st.rest)
             right == Run(p.next, left, mapped.mem)
         IN  IF mapped.kind # "ok" THEN R([kind |-> mapped.kind], mapped.mem)
             ELSE IF ~IsOk(right.out) THEN right
             ELSE R(Ok(Passed(left, right.out.st)), right.mem)

\* many's return, and what the caller of the many makes of it
ManyReturned(f, m) ==
    LET res == ManyResult(f.p.min, f.p.max, f.iterations, f.elements, f.text, m)
    IN  Returned(IF f.quoted = NoLoop THEN res ELSE QuotedRest(f.quoted, res))

\* one evaluation of goOn() and, if it holds, of the loop's body
ManyTurned(f, m) ==
    IF GoOnThrows(f.p.condition, f.text) THEN Returned(R(Fault, m))
    ELSE IF ~goOn(f.p.condition, f.p.max, f.text, f.iterations) THEN ManyReturned(f, m)
    ELSE LET res == Run(f.p.this, State(Parsed(f.st), f.text), m)
         IN  CASE Aborts(res.out) -> Returned(res)
               [] ~IsOk(res.out) -> ManyReturned(f, res.mem)
               [] OTHER ->
                     Looping([f EXCEPT !.text = res.out.st.rest,
                                       !.elements = Append(@, Parsed(res.out.st)),
                                       !.iterations = @ + 1],
                             res.mem)

\* repeat after its loop: makeText() and the return
RepeatReturned(f, m) ==
    LET flushed == makeText(f.p.fromText, f.chars, f.elements, m)
    IN  Returned(IF flushed.kind = "ok"
                 THEN RepeatResult(flushed.elements, f.text, flushed.mem)
                 ELSE R([kind |-> flushed.kind], flushed.mem))

\* one evaluation of `text && condition(text)` and, if it holds, of the
\* loop's body
RepeatTurned(f, m) ==
    LET test == RepeatTest(f.p.condition, f.text)
        fresh == Alloc(m, MapObj(EmptyProps))
        res == Run(f.p.elementParser, State(fresh.ref, f.text), fresh.m)
        flushed == makeText(f.p.fromText, f.chars, f.elements, res.mem)
    IN  CASE test = "throw" -> Returned(R(Fault, m))
          [] test = "stop" -> RepeatReturned(f, m)
          [] Aborts(res.out) -> Returned(res)
          [] IsOk(res.out) /\ flushed.kind # "ok" ->
                Returned(R([kind |-> flushed.kind], flushed.mem))
          [] IsOk(res.out) ->
                Looping([f EXCEPT !.text = res.out.st.rest,
                                  !.chars = <<>>,
                                  !.elements = Append(flushed.elements,
                                                      Parsed(res.out.st)),
                                  !.turns = @ + 1],
                        flushed.mem)
          [] OTHER ->
                Looping([f EXCEPT !.text = Str(Slice(f.text.v, 1)),
                                  !.chars = Append(@, f.text.v[1]),
                                  !.turns = @ + 1],
                        res.mem)

\* one evaluation of `balance && index < text.length` and, if it holds, of
\* the loop's body
BracketsTurned(f, m) ==
    IF f.balance # 0 /\ f.index < Len(f.text)
    THEN Looping([f EXCEPT !.balance = Balance(f.text[f.index + 1], f.p.left,
                                               f.p.right, f.balance),
                           !.index = @ + 1],
                 m)
    ELSE Returned(R(BracketsResult(f.text, f.index, f.balance), m))

\* the call moves on to where `to` says
Goes(to) ==
    /\ pc' = to.pc
    /\ loop' = to.loop
    /\ outcome' = to.outcome
    /\ mem' = to.mem
    /\ UNCHANGED <<parser, input, before>>

\* parser.parseText(text), up to the loop
Enter ==
    /\ pc = "ready"
    /\ Goes(Entered(parser, input, mem))
    /\ calls' = calls + 1

ManyTurn ==
    /\ pc = "loop" /\ loop.kind = "many"
    /\ loop.iterations < MaxTurns
    /\ Goes(ManyTurned(loop, mem))
    /\ UNCHANGED calls

RepeatTurn ==
    /\ pc = "loop" /\ loop.kind = "repeat"
    /\ loop.turns < MaxTurns
    /\ Goes(RepeatTurned(loop, mem))
    /\ UNCHANGED calls

BracketsTurn ==
    /\ pc = "loop" /\ loop.kind = "brackets"
    /\ Goes(BracketsTurned(loop, mem))
    /\ UNCHANGED calls

\* the parsers with a loop: over parsers that consume, and over some that
\* succeed without consuming
StepParsers ==
    {many(p, mm[1], mm[2], c) :
        p \in {char("a"), item, string(<<"a", "b">>), all, peek(Always),
               result(Str(<<"r">>))},
        mm \in {<<0, 0>>, <<1, 0>>, <<0, 2>>, <<2, 3>>},
        c \in {NoCond, Always, NotStartsWithP(<<"b">>)}}
    \cup {repeat(el, Const(Str(<<"?">>)), c) :
            el \in {char("a"), string(<<"a", "b">>), peek(Always),
                    result(Str(<<"r">>))},
            c \in {Always, NotStartsWithP(<<"b">>)}}
    \cup {brackets("a", "b"), quoted(<<"a">>), quoted(<<"a", "b">>)}

InitSteps ==
    /\ pc = "ready"
    /\ parser \in StepParsers
    /\ input \in Fresh(Texts(AB, MaxStepLen))
    /\ mem = Pristine
    /\ before = mem
    /\ outcome = None
    /\ calls = 0
    /\ loop = NoLoop

NextSteps == Enter \/ ManyTurn \/ RepeatTurn \/ BracketsTurn

\* JavaScript runs a call to its end: a turn that can be taken is taken
SpecSteps == InitSteps /\ [][NextSteps]_vars /\ WF_vars(NextSteps)

\* turn by turn, a call returns what Run says it returns
StepsAgree ==
    pc = "done" =>
        LET res == Run(parser, input, before)
        IN  outcome = res.out /\ mem = res.mem

(***************************************************************************)
(* Parsers built against the contract: brackets of one character, bind and *)
(* bindInversed over values that are not mappings; and some that keep it.  *)
(***************************************************************************)
ContractParsers ==
    {brackets("a", "a"), brackets("b", "b"), brackets("a", "b"),
     seq(item, brackets("b", "b")),
     bind(save(item, "k"), item),
     bind(item, save(item, "k")),
     bind(item, item),
     bind(save(item, "k"), end),
     bind(save(item, "k"), save(item, "j")),
     bind(peek(Always), save(item, "k")),
     bind(peek(Always), item),
     bindInversed(save(item, "k"), item, "k"),
     bindInversed(item, save(item, "j"), NoKey),
     bindInversed(item, item, NoKey),
     bindInversed(save(all, "k"), save(item, "j"), "k")}

InitContract ==
    /\ pc = "ready"
    /\ parser \in ContractParsers
    /\ input \in Both
    /\ mem = Pristine
    /\ before = mem
    /\ outcome = None
    /\ calls = 0
    /\ loop = NoLoop

SpecContract == InitContract /\ [][Next]_vars

(***************************************************************************)
(* Claims.                                                                 *)
(***************************************************************************)
Done == pc = "done"

IsSuffix(r, text) ==
    /\ Len(r) <= Len(text)
    /\ SubSeq(text, Len(text) - Len(r) + 1, Len(text)) = r

\* the elements of the array a successful many or repeat returned
Elements == mem.objs[outcome.st.parsed.v].elems

\* C1: monotonic consumption: parseText(P, s) is Failure, or a Success whose
\* remainder is a string that is a suffix of s.
C1_MonotonicConsumption ==
    (Done /\ "parsed" \notin DOMAIN input) =>
        \/ outcome = Failure
        \/ /\ IsOk(outcome)
           /\ IsStr(outcome.st.rest)
           /\ IsSuffix(outcome.st.rest.v, input.rest.v)

\* an inversed combinator succeeded, its right parser left some of the
\* extracted text unread, and the remainder is a proper non-empty suffix
C1_Witness ==
    /\ Done /\ "parsed" \notin DOMAIN input
    /\ parser.op = "seqInversed" /\ parser.this = string(<<"a", "b">>)
    /\ parser.next = item
    /\ IsOk(outcome)
    /\ outcome.st.rest = Str(<<"a">>)
    /\ input.rest = Str(<<"a", "b", "a">>)

(***************************************************************************)
(* many: how often the repeated parser can succeed in a row from the       *)
(* starting text, the condition holding before each attempt, and the text  *)
(* left after k of these successes.                                        *)
(***************************************************************************)
RECURSIVE Available(_, _, _)
Available(p, st, text) ==
    IF Truthy(text) /\ (p.condition # NoCond => PredHolds(p.condition, text))
    THEN LET r == Run(p.this, State(Parsed(st), text), before)
         IN  IF IsOk(r.out) THEN 1 + Available(p, st, r.out.st.rest) ELSE 0
    ELSE 0

RECURSIVE TextAfter(_, _, _, _)
TextAfter(p, st, text, k) ==
    IF k = 0 THEN text
    ELSE TextAfter(p, st, Run(p.this, State(Parsed(st), text), before).out.st.rest, k - 1)

ManyDone == Done /\ parser.op = "many"

\* C3: many(P, min, max, condition) with min and max nonzero: a Success
\* carries between min and max values, and fewer than min successes of P
\* give Failure.
C3_ManyWithinBounds ==
    (ManyDone /\ parser.min # 0 /\ parser.max # 0) =>
        /\ IsOk(outcome) =>
              /\ IsArr(outcome.st.parsed, mem)
              /\ parser.min <= Len(Elements) /\ Len(Elements) <= parser.max
        /\ Available(parser, input, input.rest) < parser.min => outcome = Failure

\* some elements matched, fewer than min: Failure
C3_Witness ==
    /\ ManyDone /\ parser.min # 0 /\ parser.max # 0
    /\ Available(parser, input, input.rest) > 0
    /\ Available(parser, input, input.rest) < parser.min
    /\ outcome = Failure

\* C4 as claimed: with max nonzero, many fails only by fewer than min
\* successes, and an input on which P can match more than max times gives
\* Success with exactly max values and the remainder after the max-th match.
C4_MaxStopsTheLoop ==
    (ManyDone /\ parser.max # 0) =>
        LET n == Available(parser, input, input.rest)
        IN  /\ outcome = Failure => (parser.min # 0 /\ n < parser.min)
            /\ n > parser.max =>
                  /\ IsOk(outcome)
                  /\ Len(Elements) = parser.max
                  /\ outcome.st.rest = TextAfter(parser, input, input.rest, parser.max)

\* C4 amended: with max nonzero, many fails exactly when fewer than min
\* (min nonzero) or more than max successes of P are available; otherwise it
\* succeeds with every available value and the remainder after the last.
C4_MaxExceededFails ==
    (ManyDone /\ parser.max # 0) =>
        LET n == Available(parser, input, input.rest)
        IN  /\ outcome = Failure <=> ((parser.min # 0 /\ n < parser.min) \/ n > parser.max)
            /\ outcome # Failure =>
                  /\ IsOk(outcome)
                  /\ IsArr(outcome.st.parsed, mem)
                  /\ Len(Elements) = n
                  /\ outcome.st.rest = TextAfter(parser, input, input.rest, n)

\* P could match more than max times, the condition still true: Failure
C4_Witness ==
    /\ ManyDone /\ parser.max # 0 /\ parser.min # 0
    /\ parser.condition = Always
    /\ Available(parser, input, input.rest) > parser.max
    /\ parser.min <= parser.max
    /\ outcome = Failure

(***************************************************************************)
(* brackets: the nesting counter of the claim, by counting.                *)
(***************************************************************************)
Count(text, c, i) == Cardinality({j \in 1..i : text[j] = c})

\* the counter after the first i characters of a text that opens with left
Depth(text, left, right, i) == Count(text, left, i) - Count(text, right, i)

\* left and right are balanced in t: no prefix closes more than it opens
Balanced(t, left, right) ==
    /\ \A i \in 1..Len(t) : Depth(t, left, right, i) >= 0
    /\ Depth(t, left, right, Len(t)) = 0

BracketsDone == Done /\ parser.op = "brackets"

\* C5: brackets(l, r) succeeds iff the text opens with l and the nesting
\* counter reaches 0; the value is what lies before the first such position
\* and the remainder what follows it; l+t+r+u with t balanced gives t and u.
C5_BracketsRoundTrip ==
    BracketsDone =>
        LET text == input.rest.v
            l == parser.left
            r == parser.right
            closes == {i \in 2..Len(text) : Depth(text, l, r, i) = 0}
        IN  /\ IsOk(outcome) <=> (Len(text) > 0 /\ text[1] = l /\ closes # {})
            /\ IsOk(outcome) =>
                  LET i == CHOOSE c \in closes : \A d \in closes : c <= d
                  IN  /\ text[i] = r
                      /\ outcome.st = State(Str(SubSeq(text, 2, i - 1)),
                                            Str(SubSeq(text, i + 1, Len(text))))
                      /\ text = <<l>> \o outcome.st.parsed.v \o <<r>> \o outcome.st.rest.v
            /\ ~IsOk(outcome) => outcome = Failure
            /\ \A k \in 0..(Len(text) - 2) :
                  (/\ text[1] = l
                   /\ text[k + 2] = r
                   /\ Balanced(SubSeq(text, 2, k + 1), l, r)) =>
                      outcome = Ok(State(Str(SubSeq(text, 2, k + 1)),
                                         Str(SubSeq(text, k + 3, Len(text)))))

\* a nested pair inside the brackets, and text after them
C5_Witness ==
    /\ BracketsDone
    /\ input.rest = Str(<<"a", "a", "b", "b", "c">>)
    /\ outcome = Ok(State(Str(<<"a", "b">>), Str(<<"c">>)))

(***************************************************************************)
(* quoted                                                                  *)
(***************************************************************************)
\* the 0-based offsets at which q occurs in t
Occurrences(q, t) ==
    {i \in 0..(Len(t) - Len(q)) : SubSeq(t, i + 1, i + Len(q)) = q}

QuotedDone == Done /\ \E q \in Quotes : parser = quoted(q)

TheQuote == CHOOSE q \in Quotes : parser = quoted(q)

\* the text is q+t+q for the t between
IsQuotedText(q, text) ==
    /\ Len(text) >= 2 * Len(q)
    /\ StartsWith(text, q)
    /\ SubSeq(text, Len(text) - Len(q) + 1, Len(text)) = q

Between(q, text) == SubSeq(text, Len(q) + 1, Len(text) - Len(q))

\* inputs that do not start with q, or where q never appears again
QuotedMustFail(q, text) ==
    \/ ~StartsWith(text, q)
    \/ Occurrences(q, Slice(text, Len(q))) = {}

\* C6 as claimed: for every t that contains no q, quoted(q) on q+t+q gives
\* the value t and an empty remainder; an input that does not start with q
\* or has no q after the opening one gives Failure.
C6_QuotedRoundTrip ==
    QuotedDone =>
        LET q == TheQuote
            text == input.rest.v
        IN  /\ (IsQuotedText(q, text) /\ Occurrences(q, Between(q, text)) = {}) =>
                  outcome = Ok(State(Str(Between(q, text)), Str(<<>>)))
            /\ QuotedMustFail(q, text) => outcome = Failure

\* C6 amended: the round trip holds for every t such that q occurs in t+q at
\* its end only (for a one-character q: t contains no q); the Failure
\* cases are as claimed.
C6_QuotedFirstOccurrence ==
    QuotedDone =>
        LET q == TheQuote
            text == input.rest.v
        IN  /\ (/\ IsQuotedText(q, text)
                /\ Occurrences(q, Slice(text, Len(q))) = {Len(text) - 2 * Len(q)}) =>
                  outcome = Ok(State(Str(Between(q, text)), Str(<<>>)))
            /\ (/\ IsQuotedText(q, text)
                /\ Len(q) = 1
                /\ Occurrences(q, Between(q, text)) = {}) =>
                  outcome = Ok(State(Str(Between(q, text)), Str(<<>>)))
            /\ QuotedMustFail(q, text) => outcome = Failure

\* a two-character delimiter round-trips a text between
C6_Witness ==
    /\ QuotedDone
    /\ TheQuote = <<"a", "b">>
    /\ input.rest = Str(<<"a", "b", "b", "a", "b">>)
    /\ outcome = Ok(State(Str(<<"b">>), Str(<<>>)))

(***************************************************************************)
(* repeat: the scan of the claim.  One mark for each position the scan     *)
(* visits: an element with its value, or a character the element parser    *)
(* failed at.                                                              *)
(***************************************************************************)
ElementAt(p, text) ==
    LET fresh == Alloc(before, MapObj(EmptyProps))
    IN  Run(p.elementParser, State(fresh.ref, Str(text)), fresh.m)

Scanning(p, text) == text # <<>> /\ PredHolds(p.condition, Str(text))

RECURSIVE ScanMarks(_, _)
ScanMarks(p, text) ==
    IF ~Scanning(p, text) THEN <<>>
    ELSE LET r == ElementAt(p, text)
         IN  IF IsOk(r.out)
             THEN <<[el |-> TRUE, val |-> Deep(Parsed(r.out.st), r.mem), c |-> ""]>>
                  \o ScanMarks(p, r.out.st.rest.v)
             ELSE <<[el |-> FALSE, val |-> Undef, c |-> text[1]]>>
                  \o ScanMarks(p, Tail(text))

\* where the scan stops: the input exhausted or the condition false
RECURSIVE StopText(_, _)
StopText(p, text) ==
    IF ~Scanning(p, text) THEN text
    ELSE LET r == ElementAt(p, text)
         IN  StopText(p, IF IsOk(r.out) THEN r.out.st.rest.v ELSE Tail(text))

\* textConverter(run), as the caller sees it
Converted(fromText, run) ==
    LET made == ApplyMapper(fromText, Str(run), before)
    IN  Deep(made.val, made.mem)

\* the length of the maximal run of character marks that starts the marks
RunLength(marks) ==
    CHOOSE n \in 1..Len(marks) :
        /\ \A i \in 1..n : ~marks[i].el
        /\ n = Len(marks) \/ marks[n + 1].el

\* the entries the claim expects: each element, and one converted text for
\* each maximal run of characters
RECURSIVE Entries(_, _)
Entries(fromText, marks) ==
    IF marks = <<>> THEN <<>>
    ELSE IF marks[1].el THEN <<marks[1].val>> \o Entries(fromText, Tail(marks))
    ELSE LET n == RunLength(marks)
         IN  <<Converted(fromText, [i \in 1..n |-> marks[i].c])>>
             \o Entries(fromText, SubSeq(marks, n + 1, Len(marks)))

RepeatDone == Done /\ parser.op = "repeat"

SeenElements == [i \in 1..Len(Elements) |-> Deep(Elements[i], mem)]

\* an entry made by the converter s => ({text: s})
IsTextEntry(e) == e.t = "map" /\ DOMAIN e.props = {"text"}

\* C7: a successful repeat returns, in input order, every element's value
\* and one converted entry for each maximal run of characters the element
\* parser failed at; no two text entries are adjacent; the remainder is
\* where the scan stopped.
C7_RepeatInterleaves ==
    (RepeatDone /\ IsOk(outcome)) =>
        /\ IsArr(outcome.st.parsed, mem)
        /\ SeenElements = Entries(parser.fromText, ScanMarks(parser, input.rest.v))
        /\ outcome.st.rest = Str(StopText(parser, input.rest.v))
        /\ parser.fromText = Text =>
              \A i \in 1..(Len(Elements) - 1) :
                  ~(IsTextEntry(SeenElements[i]) /\ IsTextEntry(SeenElements[i + 1]))

\* text, element, text, and a stop at the condition
C7_Witness ==
    /\ RepeatDone /\ IsOk(outcome)
    /\ parser.fromText = Text
    /\ parser.condition = NotStartsWithP(<<"c">>)
    /\ Len(Elements) = 3
    /\ IsTextEntry(SeenElements[1]) /\ ~IsTextEntry(SeenElements[2])
    /\ IsTextEntry(SeenElements[3])
    /\ outcome.st.rest = Str(<<"c">>)

AllLiteral(marks) == \A i \in 1..Len(marks) : ~marks[i].el

\* C8 as claimed: repeat fails whenever no element matched, however much
\* text was scanned.
C8_RepeatNeedsAnElement ==
    (RepeatDone /\ AllLiteral(ScanMarks(parser, input.rest.v))) => outcome = Failure

\* C8 amended: repeat fails exactly when it scanned nothing (the input empty
\* or the condition false at the start); a scan of literal text alone gives
\* Success with one entry, the converted text.
C8_RepeatFailsOnEmptyScan ==
    RepeatDone =>
        LET marks == ScanMarks(parser, input.rest.v)
        IN  /\ outcome = Failure <=> marks = <<>>
            /\ (marks # <<>> /\ AllLiteral(marks)) =>
                  /\ IsOk(outcome)
                  /\ SeenElements =
                        <<Converted(parser.fromText, [i \in 1..Len(marks) |-> marks[i].c])>>

\* literal text only: Success with the one converted entry
C8_Witness ==
    /\ RepeatDone
    /\ input.rest = Str(<<"b", "c", "b">>)
    /\ parser.condition = Always
    /\ IsOk(outcome)
    /\ Len(Elements) = 1
    /\ IsTextEntry(SeenElements[1])

(***************************************************************************)
(* The combinators of two parsers.                                         *)
(***************************************************************************)
\* an outcome of the call, as the caller sees it
SeenOutcome == Seen(outcome, mem)

\* the value of the call's Success, as the caller sees it
SeenValue == Deep(Parsed(outcome.st), mem)

\* C2: or(P, Q) gives P's result when P succeeds, and when P fails what Q
\* gives on the state as it was before P was tried.
C2_OrLeavesNothingBehind ==
    (Done /\ parser.op = "or") =>
        LET first == Run(parser.this, input, before)
            second == Run(parser.other, input, before)
        IN  /\ IsOk(first.out) => SeenOutcome = Seen(first.out, first.mem)
            /\ first.out = Failure => SeenOutcome = Seen(second.out, second.mem)

ForwardDone == Done /\ parser.op \in {"bind", "seq", "pass"}

\* C9: bind, seq and pass apply Q to P's output state, fail iff P or Q
\* fails, report Q's remainder, and give the union of both mappings (bind),
\* Q's value (seq) or P's value (pass).
C9_ForwardSequencing ==
    ForwardDone =>
        LET left == Run(parser.this, input, before)
        IN  IF ~IsOk(left.out) THEN outcome = Failure
            ELSE LET right == Run(parser.next, left.out.st, left.mem)
                     leftValue == Deep(Parsed(left.out.st), left.mem)
                     rightValue == Deep(Parsed(right.out.st), right.mem)
                 IN  IF ~IsOk(right.out) THEN outcome = Failure
                     ELSE /\ IsOk(outcome)
                          /\ outcome.st.rest = right.out.st.rest
                          /\ parser.op = "bind" =>
                                SeenValue.props = Merge(leftValue.props, rightValue.props)
                          /\ parser.op = "seq" => SeenValue = rightValue
                          /\ parser.op = "pass" => SeenValue = leftValue

InversedDone == Done /\ parser.op \in {"bindInversed", "seqInversed"}

\* the field named key of a mapping, or the whole value without a key
Field(v, key, m) ==
    IF key = NoKey THEN v
    ELSE IF key \in DOMAIN m.objs[v.v].props THEN m.objs[v.v].props[key]
    ELSE Undef

\* C10: bindInversed and seqInversed apply Q to the value P extracted, as a
\* state of its own with no carried value; they fail iff P or Q fails; they
\* report P's remainder; the value is the union of both mappings
\* (bindInversed) or Q's value (seqInversed).
C10_InversedSequencing ==
    InversedDone =>
        LET left == Run(parser.this, input, before)
        IN  IF ~IsOk(left.out) THEN left.out = Failure /\ outcome = Failure
            ELSE LET extracted == Field(Parsed(left.out.st), parser.key, left.mem)
                     right == Run(parser.next, [rest |-> extracted], left.mem)
                     leftValue == Deep(Parsed(left.out.st), left.mem)
                     rightValue == Deep(Parsed(right.out.st), right.mem)
                 IN  IF ~IsOk(right.out) THEN right.out = Failure /\ outcome = Failure
                     ELSE /\ IsOk(outcome)
                          /\ outcome.st.rest = left.out.st.rest
                          /\ parser.op = "bindInversed" =>
                                SeenValue.props = Merge(leftValue.props, rightValue.props)
                          /\ parser.op = "seqInversed" => SeenValue = rightValue

\* Q read one character of the two P extracted; the remainder is P's
C10_Witness ==
    /\ InversedDone
    /\ parser = bindInversed(save(string(<<"a", "b">>), "k"), save(item, "j"), "k")
    /\ input.rest = Str(<<"a", "b", "a">>)
    /\ IsOk(outcome)
    /\ outcome.st.rest = Str(<<"a">>)
    /\ SeenValue.props = [k |-> Str(<<"a", "b">>), j |-> Str(<<"a">>)]

(***************************************************************************)
(* default                                                                 *)
(***************************************************************************)
DefaultDone == Done /\ parser.op = "default"

\* C11: default(P, d) never fails: when P succeeds the result is P's, and
\* when P fails it is Success with the value d, as the caller gave it, and
\* the remainder of the input.
C11_DefaultNeverFails ==
    DefaultDone =>
        LET first == Run(parser.this, input, before)
        IN  /\ IsOk(outcome)
            /\ IsOk(first.out) => SeenOutcome = Seen(first.out, first.mem)
            /\ first.out = Failure =>
                  SeenOutcome = Ok(State(Deep(parser.defaultValue, before), input.rest))

\* the same, where P leaves the object d alone
C11_DefaultOfUntouchedValue ==
    (DefaultDone /\ Deep(parser.defaultValue, mem) = Deep(parser.defaultValue, before)) =>
        LET first == Run(parser.this, input, before)
        IN  /\ IsOk(outcome)
            /\ IsOk(first.out) => SeenOutcome = Seen(first.out, first.mem)
            /\ first.out = Failure =>
                  SeenOutcome = Ok(State(Deep(parser.defaultValue, before), input.rest))

(***************************************************************************)
(* Reuse of a parser value.                                                *)
(***************************************************************************)
\* what a freshly built identical parser gives on the same text
FreshOutcome ==
    LET fresh == parseText(parser, input.rest.v, Pristine)
    IN  Seen(fresh.out, fresh.mem)

\* C12: whatever the same parser was applied to before, its outcome on a
\* text is the outcome of a freshly built identical parser, and the constant
\* given to result and default is as the caller gave it.
C12_ReusableParsers ==
    Done =>
        /\ SeenOutcome = FreshOutcome
        /\ Deep(ConstRef, mem) = Deep(ConstRef, InitMem)

\* the outcomes alone, whatever became of the constant
C12_SameOutcomeAsFresh == Done => SeenOutcome = FreshOutcome

(***************************************************************************)
(* Violations of the programming contract.                                 *)
(***************************************************************************)
\* the contract was violated: an assertion of the library did not hold
Violated == mem.log # {}

\* C13: a violation of the contract (brackets(l, l); bind or bindInversed
\* over a value that is not a mapping) ends the call with a fault, never
\* with a Success and never with Failure.
C13_ViolationsFault == (Done /\ Violated) => outcome = Fault

(***************************************************************************)
(* Termination of the loops.                                               *)
(***************************************************************************)
\* every success of P on a text that is not empty consumes a character
Consumes(P) ==
    \A t \in Texts(AB, MaxStepLen) \ {<<>>} :
        LET res == Run(P, [rest |-> Str(t)], Pristine)
        IN  /\ ~Aborts(res.out)
            /\ IsOk(res.out) =>
                  IsStr(res.out.st.rest) /\ Len(res.out.st.rest.v) < Len(t)

\* the claim's precondition on the parser that many or repeat repeats
Progressing ==
    /\ parser.op = "many" => Consumes(parser.this)
    /\ parser.op = "repeat" => Consumes(parser.elementParser)

\* the next turn of a many without max, or of repeat, is a success of P
\* that leaves the text where it was
Spins ==
    /\ pc = "loop"
    /\ \/ /\ loop.kind = "many" /\ loop.p.max = 0
          /\ ~GoOnThrows(loop.p.condition, loop.text)
          /\ goOn(loop.p.condition, loop.p.max, loop.text, loop.iterations)
          /\ LET res == Run(loop.p.this, State(Parsed(loop.st), loop.text), mem)
             IN  IsOk(res.out) /\ res.out.st.rest = loop.text
       \/ /\ loop.kind = "repeat"
          /\ RepeatTest(loop.p.condition, loop.text) = "go"
          /\ LET res == Run(loop.p.elementParser, State(Undef, loop.text), mem)
             IN  IsOk(res.out) /\ res.out.st.rest = loop.text

\* C14: a call of many, repeat, quoted or brackets returns when every
\* success of the repeated parser consumes a character, whatever the
\* condition; and a loop of many without max or of repeat whose parser
\* succeeds without consuming goes on for ever.
C14_LoopsTerminate ==
    /\ Progressing ~> (pc = "done")
    /\ [][Spins => Spins']_vars

\* the condition never turned false: the loop stopped at the end of the
\* text, after as many turns as the text has characters
C14_Witness ==
    /\ pc = "done"
    /\ parser = many(item, 0, 0, Always)
    /\ input.rest = Str(<<"a", "b", "a", "b">>)
    /\ IsOk(outcome)
    /\ outcome.st.rest = Str(<<>>)
    /\ Len(mem.objs[outcome.st.parsed.v].elems) = Len(input.rest.v)

====
